---- MODULE Spec2Model ----
(***************************************************************************)
(* Model of boss_bot.py: the record store (records / records.json), the    *)
(* periodic reconciliation pass (BossCog.check_task), the slash commands   *)
(* and the card button.  Time is counted in whole minutes since midnight   *)
(* of one day; every coroutine runs atomically between two awaits, and the *)
(* other handlers may run while one is suspended at an await.              *)
(***************************************************************************)
EXTENDS Integers, Sequences, FiniteSets, TLC

VARIABLES records, order, disk, clock, pass, cmds, msgs, nrem, ncard, crashes,
          status

vars == <<records, order, disk, clock, pass, cmds, msgs, nrem, ncard, crashes, status>>

\* ---------------------------------------------------------------- bounds
MaxClock == 4
MaxMsgs == 2
MaxClockPair == 2
MaxCrashes == 1
MaxCmds == 2
MaxCmdsFull == 1
MaxSends == 3
MaxElapsed == 500

\* ------------------------------------------------------ program constants
EARLY_MINUTES == 3
ANTI_DUP_GRACE_SEC == 180
FALLBACK_PERIOD == 120
SECONDS_PER_MINUTE == 60
MINUTES_PER_HOUR == 60
None == -1
ChannelId == 1

DEFAULT_BOSSES ==
    (120 :> {"02", "03"}) @@ (180 :> {"05", "06", "08", "10"}) @@
    (240 :> {"12", "14", "70-2F"}) @@ (300 :> {"17", "18"}) @@
    (360 :> {"19", "21", "80-3F"}) @@ (480 :> {"22", "26", "29", "j70-2F"}) @@
    (600 :> {"30", "31", "32", "40"}) @@
    (720 :> {"B3", "33", "34", "37", "j80-3F"}) @@ (840 :> {"41"})

\* ----------------------------------------------------------------- inputs
\* Boss names given to the commands (already trimmed): one of the catalog,
\* one unknown to it.
Bosses == {"05", "zz"}
\* The boss the commands of the full specification are given.
MainBosses == {"05"}
\* Periods given to /set and /add.
PeriodInputs == {0, 2}
\* The periods given to /set in the two-boss specification.
PairPeriods == {2}
\* The periods given to /set in the specification of the growing period.
OrderPeriods == {2, 4}
\* The arguments given to status_of: periods in minutes, instants in ticks.
StatusPeriods == {1, 2, 120}
StatusLasts == {None, 0, 61}
LongElapsed == {117, 119, 120, 239, 240, 365}
\* HHMM texts given to /killat, as tuples of decimal digits.
KillatInputs == {<<0, 0, 0, 0>>, <<0, 0, 0, 2>>, <<2, 4, 6, 0>>}

\* ---------------------------------------------------------------- helpers
EmptyFn == [x \in {} |-> x]

Range(s) == {s[i] : i \in DOMAIN s}

Restrict(f, S) == [x \in S |-> f[x]]

\* datetime.isoformat / datetime.fromisoformat: a text is a tuple holding the
\* instant, the absent value is the empty tuple.
Iso(t) == IF t = None THEN <<>> ELSE <<t>>

FromIso(s) == IF s = <<>> THEN None ELSE s[1]

safe_period(p) ==
    LET n == IF p = 0 THEN FALLBACK_PERIOD ELSE p
    IN  IF n > 0 THEN n ELSE FALLBACK_PERIOD

NewRec(per) ==
    [period |-> per, last_kill |-> None, channel |-> None,
     reminded |-> FALSE, carded |-> FALSE,
     card_channel_id |-> None, card_msg_id |-> None, manual_set_at |-> <<>>]

CatalogPeriod(b) ==
    IF \E pp \in DOMAIN DEFAULT_BOSSES : b \in DEFAULT_BOSSES[pp]
    THEN CHOOSE pp \in DOMAIN DEFAULT_BOSSES : b \in DEFAULT_BOSSES[pp]
    ELSE 0

\* ensure_boss: the store after the call; hint is <<>> (no period_hint) or <<p>>.
ensure_boss(recs, b, hint) ==
    IF b \in DOMAIN recs THEN recs
    ELSE LET per0 == IF hint = <<>> THEN CatalogPeriod(b) ELSE hint[1]
             per  == IF per0 = 0 THEN FALLBACK_PERIOD ELSE per0
         IN  recs @@ (b :> NewRec(per))

ensure_order(ord, recs, b) == IF b \in DOMAIN recs THEN ord ELSE Append(ord, b)

\* save_records: the text written to records.json.
save_records(recs, ord) ==
    [order |-> ord,
     recs |-> [b \in DOMAIN recs |-> [recs[b] EXCEPT !.last_kill = Iso(@)]]]

\* load_records: the store read back from records.json.
load_records(d) == [b \in DOMAIN d.recs |-> [d.recs[b] EXCEPT !.last_kill = FromIso(@)]]

\* datetime.strptime(text, "%H%M"): %H is 2[0-3]|[0-1]\d|\d, %M is [0-5]\d|\d,
\* the first alternative that matches a prefix wins and the whole text must
\* then be consumed.  The result is <<hour, minute>> or <<>> (ValueError).
HourLen(s) ==
    IF Len(s) >= 2 /\ s[1] * 10 + s[2] <= 23 /\ s[1] <= 2 THEN 2
    ELSE IF Len(s) >= 1 THEN 1 ELSE 0

MinuteLen(s, from) ==
    IF Len(s) >= from + 1 /\ s[from] <= 5 THEN 2
    ELSE IF Len(s) >= from THEN 1 ELSE 0

strptime_HM(s) ==
    LET h2 == HourLen(s)
        try(hl) == LET ml == MinuteLen(s, hl + 1)
                   IN  IF hl = 0 \/ ml = 0 THEN <<>> ELSE <<hl, ml>>
        pick == IF h2 = 2 /\ try(2) # <<>> THEN try(2)
                ELSE IF h2 >= 1 THEN try(1) ELSE <<>>
    IN  IF pick = <<>> \/ pick[1] + pick[2] # Len(s) THEN <<>>
        ELSE LET hl == pick[1]
                 ml == pick[2]
                 h == IF hl = 2 THEN s[1] * 10 + s[2] ELSE s[1]
                 m == IF ml = 2 THEN s[hl + 1] * 10 + s[hl + 2] ELSE s[hl + 1]
             IN  <<h, m>>

LastKillOf(recs, b) == IF b \in DOMAIN recs THEN recs[b].last_kill ELSE None

\* nrem and ncard count, for each entity, the reminders and the cards sent
\* in its current cycle: a send counts from the moment the loop begins it and
\* no longer counts once it has failed.  Both start again from zero when the
\* entity's last_kill changes.
CycleCount(cnt, recs2) ==
    [b \in Bosses |-> IF LastKillOf(recs2, b) # LastKillOf(records, b) THEN 0 ELSE cnt[b]]

Bump(cnt, b) == [cnt EXCEPT ![b] = @ + 1]

Unbump(cnt, b) == [cnt EXCEPT ![b] = IF @ > 0 THEN @ - 1 ELSE @]

\* ------------------------------------------------------------- status_of
\* status_of and pretty_compact work on datetimes and timedeltas, finer than
\* a second: here an instant is a count of ticks, TICKS_PER_SECOND to the
\* second, and int(td.total_seconds()) drops the fraction of a second.
TICKS_PER_SECOND == 2

TotalSeconds(td) == IF td >= 0 THEN td \div TICKS_PER_SECOND
                    ELSE -((-td) \div TICKS_PER_SECOND)

Minutes(n) == n * SECONDS_PER_MINUTE * TICKS_PER_SECOND

\* pretty_compact: <<"left", h, m>> stands for "h時mm分" (h > 0) or "m分";
\* <<"over", n, 0>> for the text of n missed rounds, <<"unset", 0, 0>> for
\* the text of a boss never killed.
pretty_compact(td) ==
    LET total == TotalSeconds(td)
        m == total \div SECONDS_PER_MINUTE
    IN  IF total <= 0 THEN <<"left", 0, 0>>
        ELSE <<"left", m \div MINUTES_PER_HOUR, m % MINUTES_PER_HOUR>>

\* status_of with the overrun counted from last instead of respawn.
status_ofRolling(period, last, now) ==
    IF last = None
    THEN [sym |-> "WAIT", text |-> <<"unset", 0, 0>>, respawn |-> None,
          miss_times |-> None, minutes_over |-> None]
    ELSE LET respawn == last + Minutes(period)
             remain == respawn - now
         IN  IF remain <= 0
             THEN LET over_secs == TotalSeconds(now - last)
                      miss_times == over_secs \div (period * SECONDS_PER_MINUTE)
                  IN  IF miss_times >= 1
                      THEN [sym |-> "MISSED", text |-> <<"over", miss_times, 0>>,
                            respawn |-> respawn, miss_times |-> miss_times,
                            minutes_over |-> over_secs \div SECONDS_PER_MINUTE]
                      ELSE [sym |-> "SPAWNED", text |-> <<"left", 0, 0>>, respawn |-> respawn,
                            miss_times |-> 0, minutes_over |-> 0]
             ELSE IF remain <= Minutes(EARLY_MINUTES)
             THEN [sym |-> "SOON", text |-> pretty_compact(remain), respawn |-> respawn,
                   miss_times |-> 0, minutes_over |-> None]
             ELSE [sym |-> "WAIT", text |-> pretty_compact(remain), respawn |-> respawn,
                   miss_times |-> 0, minutes_over |-> None]

\* status_of with the respawn instant itself still counted as remaining.
status_ofStrict(period, last, now) ==
    IF last = None
    THEN [sym |-> "WAIT", text |-> <<"unset", 0, 0>>, respawn |-> None,
          miss_times |-> None, minutes_over |-> None]
    ELSE LET respawn == last + Minutes(period)
             remain == respawn - now
         IN  IF remain < 0
             THEN LET over_secs == TotalSeconds(-remain)
                      miss_times == over_secs \div (period * SECONDS_PER_MINUTE)
                  IN  IF miss_times >= 1
                      THEN [sym |-> "MISSED", text |-> <<"over", miss_times, 0>>,
                            respawn |-> respawn, miss_times |-> miss_times,
                            minutes_over |-> over_secs \div SECONDS_PER_MINUTE]
                      ELSE [sym |-> "SPAWNED", text |-> <<"left", 0, 0>>, respawn |-> respawn,
                            miss_times |-> 0, minutes_over |-> 0]
             ELSE IF remain <= Minutes(EARLY_MINUTES)
             THEN [sym |-> "SOON", text |-> pretty_compact(remain), respawn |-> respawn,
                   miss_times |-> 0, minutes_over |-> None]
             ELSE [sym |-> "WAIT", text |-> pretty_compact(remain), respawn |-> respawn,
                   miss_times |-> 0, minutes_over |-> None]

\* status_of, lines 145-163: (sym, text, respawn, miss_times, minutes over).
status_of(period, last, now) ==
    IF last = None
    THEN [sym |-> "WAIT", text |-> <<"unset", 0, 0>>, respawn |-> None,
          miss_times |-> None, minutes_over |-> None]
    ELSE LET respawn == last + Minutes(period)
             remain == respawn - now
         IN  IF remain <= 0
             THEN LET over_secs == TotalSeconds(-remain)
                      miss_times == over_secs \div (period * SECONDS_PER_MINUTE)
                  IN  IF miss_times >= 1
                      THEN [sym |-> "MISSED", text |-> <<"over", miss_times, 0>>,
                            respawn |-> respawn, miss_times |-> miss_times,
                            minutes_over |-> over_secs \div SECONDS_PER_MINUTE]
                      ELSE [sym |-> "SPAWNED", text |-> <<"left", 0, 0>>, respawn |-> respawn,
                            miss_times |-> 0, minutes_over |-> 0]
             ELSE IF remain <= Minutes(EARLY_MINUTES)
             THEN [sym |-> "SOON", text |-> pretty_compact(remain), respawn |-> respawn,
                   miss_times |-> 0, minutes_over |-> None]
             ELSE [sym |-> "WAIT", text |-> pretty_compact(remain), respawn |-> respawn,
                   miss_times |-> 0, minutes_over |-> None]

\* No classification computed yet.
NoStatus == [period |-> None, last |-> None, now |-> None, out |-> status_of(1, None, 0)]

\* A handler suspended at an await after it has written the record: /k or
\* /killat in _disable_existing_card, the button in edit_message.  It keeps
\* the dict object of the record (detached: /del has removed that object from
\* the store; shared: the suspended pass holds the same removed object) and
\* the id of the card it is to edit.  changed tells that it changed last_kill.
\* The button's handler does not touch the record again: its three flags stay
\* FALSE.
Handler(op, b, msg, changed) ==
    [op |-> op, boss |-> b, msg |-> msg, detached |-> FALSE, shared |-> FALSE,
     changed |-> changed]

RemoveAt(seq, i) == [j \in 1..(Len(seq) - 1) |-> IF j < i THEN seq[j] ELSE seq[j + 1]]

IdlePass ==
    [pc |-> "idle", now |-> 0, items |-> <<>>, detached |-> EmptyFn,
     kill |-> None, respawn |-> None, disable |-> FALSE, started |-> FALSE, retry |-> FALSE,
     failed |-> {}]

\* ------------------------------------------------------------------- Init
\* BossBot.setup_hook on a first run: load_records empties the store, finds
\* no records.json, and save_records writes the empty mapping.
Init ==
    /\ records = EmptyFn
    /\ order = <<>>
    /\ disk = save_records(EmptyFn, <<>>)
    /\ clock = 0
    /\ pass = IdlePass
    /\ cmds = <<>>
    /\ msgs = <<>>
    /\ nrem = [b \in Bosses |-> 0]
    /\ ncard = [b \in Bosses |-> 0]
    /\ crashes = 0
    /\ status = NoStatus

Tick ==
    /\ clock < MaxClock
    /\ clock' = clock + 1
    /\ UNCHANGED <<records, order, disk, pass, cmds, msgs, nrem, ncard, crashes, status>>

\* ------------------------------------------------- the reconciliation pass
\* The pass iterates over list(records.items()): it holds the dict objects of
\* the snapshot.  A record deleted (and perhaps created again) while the pass
\* is suspended is still the old object for the pass: pass.detached keeps it.
Held(recs, p, b) == IF b \in DOMAIN p.detached THEN p.detached[b] ELSE recs[b]

PutHeld(recs, p, b, r) ==
    IF b \in DOMAIN p.detached
    THEN [recs |-> recs, pass |-> [p EXCEPT !.detached = [@ EXCEPT ![b] = r]]]
    ELSE [recs |-> [recs EXCEPT ![b] = r], pass |-> p]

\* The loop moves to the next (name, rec) of the snapshot.
Drop(p) ==
    [p EXCEPT !.items = Tail(@),
              !.detached = Restrict(@, DOMAIN @ \ {Head(p.items)}),
              !.kill = None, !.respawn = None, !.disable = FALSE]

\* check_task, lines 346-352: the card's view is created disabled.
DisableViewStrict(rec, now) ==
    /\ rec.manual_set_at # <<>>
    /\ (now - FromIso(rec.manual_set_at)) * SECONDS_PER_MINUTE < ANTI_DUP_GRACE_SEC

DisableView(rec, now) ==
    /\ rec.manual_set_at # <<>>
    /\ (now - FromIso(rec.manual_set_at)) * SECONDS_PER_MINUTE <= ANTI_DUP_GRACE_SEC

RECURSIVE NextEntity(_, _)

\* The card phase that consumes manual_set_at once it has used it.
CardPhasePopsManual(recs, p) ==
    LET b == Head(p.items)
        rec == Held(recs, p, b)
    IN  IF ~rec.carded /\ p.now >= p.respawn
        THEN {PutHeld(recs, [p EXCEPT !.pc = "card", !.disable = DisableView(rec, p.now)],
                      b, [rec EXCEPT !.carded = TRUE, !.manual_set_at = <<>>])}
        ELSE NextEntity(recs, Drop(p))

\* check_task from line 343 to the next await: the card is due.
CardPhase(recs, p) ==
    LET b == Head(p.items)
        rec == Held(recs, p, b)
    IN  IF ~rec.carded /\ p.now >= p.respawn
        THEN {PutHeld(recs, [p EXCEPT !.pc = "card", !.disable = DisableView(rec, p.now)],
                      b, [rec EXCEPT !.carded = TRUE])}
        ELSE NextEntity(recs, Drop(p))

\* check_task from line 333 to the next await: the early reminder is due.
ReminderPhase(recs, p) ==
    LET b == Head(p.items)
        rec == Held(recs, p, b)
    IN  IF ~rec.reminded /\ p.now >= p.respawn - EARLY_MINUTES /\ p.now < p.respawn
        THEN {PutHeld(recs, [p EXCEPT !.pc = "remind"], b, [rec EXCEPT !.reminded = TRUE])}
        ELSE CardPhase(recs, p)

\* check_task from the head of the for loop (line 316) to the next await:
\* every state the pass can be suspended in, or its end.  A channel found in
\* the cache (get_channel) costs no await; fetch_channel is one.
NextEntity(recs, p) ==
    IF p.items = <<>>
    THEN {[recs |-> recs, pass |-> [p EXCEPT !.pc = "idle", !.detached = EmptyFn]]}
    ELSE LET b == Head(p.items)
             rec == Held(recs, p, b)
         IN  IF rec.last_kill = None \/ rec.period = 0 \/ rec.channel = None
             THEN NextEntity(recs, Drop(p))
             ELSE LET q == [p EXCEPT !.kill = rec.last_kill,
                                     !.respawn = rec.last_kill + safe_period(rec.period)]
                  IN  {[recs |-> recs, pass |-> [q EXCEPT !.pc = "fetch"]]}
                          \cup ReminderPhase(recs, q)

\* The pass goes on to r, one of the states NextEntity and its like return;
\* a send begun on the way is counted for its entity's cycle.
Started(cnt, kind, p2) == IF p2.pc = kind THEN Bump(cnt, Head(p2.items)) ELSE cnt

PassTo(r, nr, nc) ==
    /\ records' = r.recs
    /\ pass' = r.pass
    /\ nrem' = Started(nr, "remind", r.pass)
    /\ ncard' = Started(nc, "card", r.pass)

\* check_task from its first line to the first await, or to its end.
PassBegin ==
    /\ pass.pc = "idle"
    /\ Len(msgs) < MaxMsgs
    /\ \A b \in Bosses : nrem[b] < MaxSends /\ ncard[b] < MaxSends
    /\ \E r \in NextEntity(records,
                           [IdlePass EXCEPT !.now = clock, !.items = order,
                                            !.started = TRUE]) :
          PassTo(r, nrem, ncard)
    /\ UNCHANGED <<order, disk, clock, cmds, msgs, crashes, status>>

\* tasks.loop(seconds=60) starts a pass: the first one at start-up, the next
\* ones no sooner than 60 s after the previous start, or right after a pass
\* that ended in a connection error (the loop's reconnect logic).
PassStart ==
    /\ (pass.started /\ ~pass.retry) => clock > pass.now
    /\ PassBegin

\* line 328: fetch_channel returns the channel.
FetchOk ==
    /\ pass.pc = "fetch"
    /\ \E r \in ReminderPhase(records, pass) : PassTo(r, nrem, ncard)
    /\ UNCHANGED <<order, disk, clock, cmds, msgs, crashes, status>>

\* line 328: fetch_channel raises, and nothing in check_task catches it.
\* The pass is over.  An HTTP error (NotFound, Forbidden) ends the loop
\* task; a connection error makes the loop run the pass again.
FetchFail(kind) ==
    /\ pass.pc = "fetch"
    /\ pass' = [pass EXCEPT !.pc = IF kind = "http" THEN "stopped" ELSE "idle",
                            !.retry = (kind # "http"),
                            !.items = Tail(@), !.detached = EmptyFn,
                            !.kill = None, !.respawn = None]
    /\ UNCHANGED <<records, order, disk, clock, cmds, msgs, nrem, ncard, crashes, status>>

\* lines 337-340: the reminder's send returns or raises.
RemindDone(ok) ==
    /\ pass.pc = "remind"
    /\ LET b == Head(pass.items)
           p == IF ok THEN pass ELSE [pass EXCEPT !.failed = @ \cup {<<b, "rem">>}]
       IN  /\ \E r \in CardPhase(records, p) :
                 PassTo(r, IF ok THEN nrem ELSE Unbump(nrem, b), ncard)
           /\ disk' = IF ok THEN save_records(records, order) ELSE disk
    /\ UNCHANGED <<order, clock, cmds, msgs, crashes, status>>

\* lines 356-361: the card's send returns the message, or raises.
CardDone(ok) ==
    /\ pass.pc = "card"
    /\ LET b == Head(pass.items)
           rec == Held(records, pass, b)
           id == Len(msgs) + 1
           put == PutHeld(records, pass, b,
                          [rec EXCEPT !.card_channel_id = ChannelId, !.card_msg_id = id])
       IN  IF ok
           THEN /\ msgs' = Append(msgs, [boss |-> b,
                                         view |-> IF pass.disable THEN "disabled" ELSE "active"])
                /\ disk' = save_records(put.recs, order)
                /\ \E r \in NextEntity(put.recs, Drop(put.pass)) : PassTo(r, nrem, ncard)
           ELSE /\ \E r \in NextEntity(records,
                                       Drop([pass EXCEPT !.failed = @ \cup {<<b, "card">>}])) :
                      PassTo(r, nrem, Unbump(ncard, b))
                /\ UNCHANGED <<msgs, disk>>
    /\ UNCHANGED <<order, clock, cmds, crashes, status>>

\* ----------------------------------------------------------- the commands
PassRunning == pass.pc \in {"fetch", "remind", "card"}

\* /k and /killat from the write of last_kill to the await in
\* _disable_existing_card (or, with no card to disable, to the handler's end).
Correction(op, b, kill) ==
    LET recs1 == ensure_boss(records, b, <<>>)
        ord1 == ensure_order(order, records, b)
        rec == [recs1[b] EXCEPT !.last_kill = kill, !.channel = ChannelId,
                                !.manual_set_at = Iso(clock),
                                !.reminded = FALSE, !.carded = FALSE]
        recs2 == [recs1 EXCEPT ![b] = rec]
    IN  /\ records' = recs2
        /\ order' = ord1
        /\ nrem' = CycleCount(nrem, recs2)
        /\ ncard' = CycleCount(ncard, recs2)
        /\ IF rec.card_channel_id = None \/ rec.card_msg_id = None
           THEN /\ disk' = save_records(recs2, ord1)
                /\ cmds' = cmds
           ELSE /\ Len(cmds) < MaxCmds
                /\ disk' = disk
                /\ cmds' = Append(cmds, Handler(op, b, rec.card_msg_id,
                                                kill # LastKillOf(records, b)))
        /\ UNCHANGED <<clock, pass, msgs, crashes, status>>

\* /k, lines 429-439.
k_(b) == Correction("k", b, clock)

\* /killat, lines 448-465: a text that does not parse leaves after ensure_boss.
killat_(b, text) ==
    LET t == strptime_HM(text)
    IN  IF t = <<>>
        THEN /\ records' = ensure_boss(records, b, <<>>)
             /\ order' = ensure_order(order, records, b)
             /\ UNCHANGED <<disk, clock, pass, cmds, msgs, nrem, ncard, crashes, status>>
        ELSE Correction("killat", b, t[1] * MINUTES_PER_HOUR + t[2])

\* _disable_existing_card, lines 304-311, then the handler's save_records,
\* for the suspended /k or /killat at position i: the old card was edited
\* (ok) or could not be reached.  The card ids are popped from the dict
\* object the handler holds.
DisableDone(i, ok) ==
    /\ i \in DOMAIN cmds
    /\ cmds[i].op \in {"k", "killat"}
    /\ LET h == cmds[i]
           b == h.boss
           live == ok /\ ~h.detached /\ b \in DOMAIN records
           held == ok /\ h.detached /\ h.shared /\ b \in DOMAIN pass.detached
           recs2 == IF live
                    THEN [records EXCEPT ![b] = [@ EXCEPT !.card_channel_id = None,
                                                          !.card_msg_id = None]]
                    ELSE records
       IN  /\ records' = recs2
           /\ pass' = IF held
                      THEN [pass EXCEPT !.detached[b] = [@ EXCEPT !.card_channel_id = None,
                                                                  !.card_msg_id = None]]
                      ELSE pass
           /\ msgs' = IF ok THEN [msgs EXCEPT ![h.msg] = [@ EXCEPT !.view = "disabled"]]
                      ELSE msgs
           /\ disk' = save_records(recs2, order)
    /\ cmds' = RemoveAt(cmds, i)
    /\ UNCHANGED <<order, clock, nrem, ncard, crashes, status>>

\* /set, lines 396-399.
set_(b, period) ==
    LET recs1 == ensure_boss(records, b, <<>>)
        ord1 == ensure_order(order, records, b)
        recs2 == [recs1 EXCEPT ![b] = [@ EXCEPT !.period = period]]
    IN  /\ records' = recs2
        /\ order' = ord1
        /\ disk' = save_records(recs2, ord1)
        /\ UNCHANGED <<clock, pass, cmds, msgs, nrem, ncard, crashes, status>>

\* /add, lines 387-390.
add_(b, period) ==
    LET recs1 == ensure_boss(records, b, <<period>>)
        ord1 == ensure_order(order, records, b)
        recs2 == [recs1 EXCEPT ![b] = [@ EXCEPT !.period = period]]
    IN  /\ records' = recs2
        /\ order' = ord1
        /\ disk' = save_records(recs2, ord1)
        /\ UNCHANGED <<clock, pass, cmds, msgs, nrem, ncard, crashes, status>>

\* /del, lines 405-410.  A pass or a handler suspended on the record keeps
\* the dict object, which is the same object for all that hold it now.
del_(b) ==
    /\ b \in DOMAIN records
    /\ LET recs2 == Restrict(records, DOMAIN records \ {b})
           ord2 == SelectSeq(order, LAMBDA x : x # b)
       IN  /\ records' = recs2
           /\ order' = ord2
           /\ disk' = save_records(recs2, ord2)
           /\ nrem' = CycleCount(nrem, recs2)
           /\ ncard' = CycleCount(ncard, recs2)
    /\ pass' = IF PassRunning /\ b \in Range(pass.items) /\ b \notin DOMAIN pass.detached
               THEN [pass EXCEPT !.detached = @ @@ (b :> records[b])]
               ELSE pass
    /\ LET taken == PassRunning /\ b \in Range(pass.items) /\ b \notin DOMAIN pass.detached
       IN  cmds' = [i \in DOMAIN cmds |->
                      IF cmds[i].boss # b \/ cmds[i].op = "btn" THEN cmds[i]
                      ELSE IF cmds[i].detached
                      THEN [cmds[i] EXCEPT !.shared = @ /\ ~taken]
                      ELSE [cmds[i] EXCEPT !.detached = TRUE, !.shared = taken]]
    /\ UNCHANGED <<clock, msgs, crashes, status>>

\* /clear that forgets to pop carded.
clear_KeepCarded ==
    LET recs2 == [b \in DOMAIN records |->
                    [records[b] EXCEPT !.last_kill = None,
                                       !.reminded = FALSE,
                                       !.card_channel_id = None, !.card_msg_id = None]]
    IN  /\ records' = recs2
        /\ disk' = save_records(recs2, order)
        /\ nrem' = CycleCount(nrem, recs2)
        /\ ncard' = CycleCount(ncard, recs2)
        /\ UNCHANGED <<order, clock, pass, cmds, msgs, crashes, status>>

\* /clear, lines 416-423.
clear_ ==
    LET recs2 == [b \in DOMAIN records |->
                    [records[b] EXCEPT !.last_kill = None,
                                       !.reminded = FALSE, !.carded = FALSE,
                                       !.card_channel_id = None, !.card_msg_id = None]]
    IN  /\ records' = recs2
        /\ disk' = save_records(recs2, order)
        /\ nrem' = CycleCount(nrem, recs2)
        /\ ncard' = CycleCount(ncard, recs2)
        /\ UNCHANGED <<order, clock, pass, cmds, msgs, crashes, status>>

\* /when, lines 474-482: ensure_boss, and no save.
when_(b) ==
    /\ records' = ensure_boss(records, b, <<>>)
    /\ order' = ensure_order(order, records, b)
    /\ UNCHANGED <<disk, clock, pass, cmds, msgs, nrem, ncard, crashes, status>>

\* BossKillView.btn_kill, lines 262-280, on the card m whose button is live:
\* the record is written and saved, and the handler is suspended in
\* edit_message.
btn_kill(m) ==
    LET b == msgs[m].boss
        recs1 == ensure_boss(records, b, <<>>)
        ord1 == ensure_order(order, records, b)
        recs2 == [recs1 EXCEPT ![b] = [@ EXCEPT !.last_kill = clock,
                                                !.reminded = FALSE, !.carded = FALSE,
                                                !.card_channel_id = None,
                                                !.card_msg_id = None]]
    IN  /\ msgs[m].view = "active"
        /\ Len(cmds) < MaxCmds
        /\ records' = recs2
        /\ order' = ord1
        /\ disk' = save_records(recs2, ord1)
        /\ cmds' = Append(cmds, Handler("btn", b, m, FALSE))
        /\ nrem' = CycleCount(nrem, recs2)
        /\ ncard' = CycleCount(ncard, recs2)
        /\ UNCHANGED <<clock, pass, msgs, crashes, status>>

\* line 281: edit_message of the button's handler at position i returns (the
\* card loses its buttons) or raises (the card stays as it is).
BtnEditDone(i, ok) ==
    /\ i \in DOMAIN cmds
    /\ cmds[i].op = "btn"
    /\ msgs' = IF ok THEN [msgs EXCEPT ![cmds[i].msg] = [@ EXCEPT !.view = "cleared"]]
               ELSE msgs
    /\ cmds' = RemoveAt(cmds, i)
    /\ UNCHANGED <<records, order, disk, clock, pass, nrem, ncard, crashes, status>>

\* A crash of the process and its restart (BossBot.setup_hook, lines
\* 559-567): the store is read back from records.json and saved, the loop
\* starts again, every handler in flight is lost and no view of an old card
\* is listening any more.  A send in flight was delivered or not; the edits
\* in flight of the handlers in applied reached the server; torn: the process
\* died inside save_records, between the truncation of records.json and the
\* write (line 75), and load_records finds nothing it can parse.
Crash(delivered, torn, applied) ==
    /\ crashes < MaxCrashes
    /\ crashes' = crashes + 1
    /\ applied \subseteq DOMAIN cmds
    /\ LET recs2 == IF torn THEN EmptyFn ELSE load_records(disk)
           ord2 == IF torn THEN <<>> ELSE disk.order
           b == Head(pass.items)
           card == pass.pc = "card" /\ delivered
           edit(i) == IF \E j \in applied : cmds[j].msg = i /\ cmds[j].op = "btn"
                      THEN "cleared"
                      ELSE IF \E j \in applied : cmds[j].msg = i
                      THEN "disabled" ELSE msgs[i].view
           old == [i \in DOMAIN msgs |->
                     [msgs[i] EXCEPT !.view = IF edit(i) = "active" THEN "unbound"
                                              ELSE edit(i)]]
       IN  /\ records' = recs2
           /\ order' = ord2
           /\ disk' = save_records(recs2, ord2)
           /\ nrem' = CycleCount(IF pass.pc = "remind" /\ ~delivered
                                  THEN Unbump(nrem, b) ELSE nrem, recs2)
           /\ ncard' = CycleCount(IF pass.pc = "card" /\ ~delivered
                                   THEN Unbump(ncard, b) ELSE ncard, recs2)
           /\ msgs' = IF card
                      THEN Append(old, [boss |-> b,
                                        view |-> IF pass.disable THEN "disabled" ELSE "unbound"])
                      ELSE old
    /\ pass' = IdlePass
    /\ cmds' = <<>>
    /\ UNCHANGED <<clock, status>>

\* A call of status_of (from build_boss_card, line 212, or from /all, line
\* 495) at the instant last + elapsed; status keeps the arguments and the
\* tuple returned.
Classify(period, last, elapsed) ==
    LET now == IF last = None THEN elapsed ELSE last + elapsed
    IN  /\ status' = [period |-> period, last |-> last, now |-> now,
                      out |-> status_of(period, last, now)]
        /\ UNCHANGED <<records, order, disk, clock, pass, cmds, msgs, nrem, ncard, crashes>>

\* ------------------------------------------------------ the specifications
PassStep ==
    \/ PassStart
    \/ FetchOk
    \/ \E kind \in {"http", "transient"} : FetchFail(kind)
    \/ \E ok \in BOOLEAN : RemindDone(ok)
    \/ \E ok \in BOOLEAN : CardDone(ok)

\* One boss, every command, with at most MaxCmdsFull handlers suspended at a
\* time.
Next ==
    \/ Tick
    \/ PassStep
    \/ \E b \in MainBosses : k_(b) /\ Len(cmds') <= MaxCmdsFull
    \/ \E b \in MainBosses, text \in KillatInputs :
          killat_(b, text) /\ Len(cmds') <= MaxCmdsFull
    \/ \E i \in DOMAIN cmds, ok \in BOOLEAN : DisableDone(i, ok)
    \/ \E b \in MainBosses, period \in PeriodInputs : set_(b, period)
    \/ \E b \in MainBosses, period \in PeriodInputs : add_(b, period)
    \/ \E b \in MainBosses : del_(b)
    \/ clear_
    \/ \E b \in MainBosses : when_(b)
    \/ \E m \in DOMAIN msgs : btn_kill(m) /\ Len(cmds') <= MaxCmdsFull
    \/ \E i \in DOMAIN cmds, ok \in BOOLEAN : BtnEditDone(i, ok)

Spec == Init /\ [][Next]_vars

\* Two bosses, the loop, /k and /set, over a shorter time.
NextPair ==
    \/ (clock < MaxClockPair /\ Tick)
    \/ PassStep
    \/ \E b \in Bosses : k_(b)
    \/ \E i \in DOMAIN cmds, ok \in BOOLEAN : DisableDone(i, ok)
    \/ \E b \in Bosses, period \in PairPeriods : set_(b, period)

SpecPair == Init /\ [][NextPair]_vars

\* One boss, the loop, /k and /set, and a crash of the process.
NextCrash ==
    \/ Tick
    \/ PassStep
    \/ \E b \in MainBosses : k_(b)
    \/ \E i \in DOMAIN cmds, ok \in BOOLEAN : DisableDone(i, ok)
    \/ \E b \in MainBosses, period \in PeriodInputs : set_(b, period)
    \/ \E delivered \in BOOLEAN, torn \in BOOLEAN, applied \in SUBSET DOMAIN cmds :
          Crash(delivered, torn, applied)

SpecCrash == Init /\ [][NextCrash]_vars

\* One boss, the loop, /k and /set with a period that grows.
NextOrder ==
    \/ Tick
    \/ PassStep
    \/ \E b \in MainBosses : k_(b)
    \/ \E i \in DOMAIN cmds, ok \in BOOLEAN : DisableDone(i, ok)
    \/ \E b \in MainBosses, period \in OrderPeriods : set_(b, period)

SpecOrder == Init /\ [][NextOrder]_vars

\* One boss, the loop, /k, /set and /clear, over a shorter time.
NextClear ==
    \/ (clock < MaxClockPair /\ Tick)
    \/ PassStep
    \/ \E b \in MainBosses : k_(b)
    \/ \E i \in DOMAIN cmds, ok \in BOOLEAN : DisableDone(i, ok)
    \/ \E b \in MainBosses, period \in PairPeriods : set_(b, period)
    \/ clear_

SpecClear == Init /\ [][NextClear]_vars

\* One boss whose period is set and which is then killed once, and the loop:
\* no command touches the record afterwards.  The clock advances up to
\* MaxClock and the loop is scheduled (weak fairness); an external call that
\* is attempted again and again succeeds in the end (strong fairness).
NextLive ==
    \/ Tick
    \/ PassStep
    \/ \E b \in MainBosses, period \in PairPeriods :
          records = EmptyFn /\ set_(b, period)
    \/ \E b \in MainBosses :
          b \in DOMAIN records /\ LastKillOf(records, b) = None /\ k_(b)

SpecLive ==
    /\ Init
    /\ [][NextLive]_vars
    /\ WF_vars(Tick)
    /\ WF_vars(PassStart)
    /\ SF_vars(FetchOk)
    /\ SF_vars(RemindDone(TRUE))
    /\ SF_vars(CardDone(TRUE))

\* status_of alone, called once, over its arguments.
NextStatus ==
    /\ status = NoStatus
    /\ \E period \in StatusPeriods, last \in StatusLasts,
          elapsed \in (0..MaxElapsed) \cup
                      {Minutes(k) + d : k \in LongElapsed, d \in {-1, 0, 1}} :
           Classify(period, last, elapsed)

SpecStatus == Init /\ [][NextStatus]_vars

\* ------------------------------------------------------------- the claims
PassOver == pass.pc \in {"idle", "stopped"}

\* C1: between two consecutive changes of an entity's last_kill, and with no
\* restart of the process, the loop delivers at most one early reminder and
\* at most one recurrence card for that entity, whatever passes and commands
\* that leave last_kill unchanged are interleaved.
C1_AtMostOncePerCycle == \A b \in Bosses : nrem[b] <= 1 /\ ncard[b] <= 1

\* C2: when the send of a reminder or of a card failed during a pass, the
\* entity's flag (reminded / carded) is false once that pass is over, so that
\* the next pass sends again.
C2_FlagUnsetAfterFailedSend ==
    PassOver =>
        \A f \in pass.failed :
            f[1] \in DOMAIN records =>
                /\ f[2] = "rem" => ~records[f[1]].reminded
                /\ f[2] = "card" => ~records[f[1]].carded

\* C3: a failure of an external step for one entity (the channel lookup or a
\* send) does not end the pass: once the pass is over, no entity of its
\* snapshot is left unevaluated.
C3_PassCoversSnapshot == PassOver => pass.items = <<>>

\* C4: whatever error occurs inside a pass, the loop is not stopped: it is
\* never in the state where no further pass is scheduled.
C4_LoopSurvives == pass.pc # "stopped"

\* C5: across a crash of the process at any point of a pass and its restart
\* from records.json, no reminder and no card is delivered a second time for
\* the same cycle of the same entity.
C5_NoDoubleAcrossRestart ==
    crashes > 0 => \A b \in Bosses : nrem[b] < 2 /\ ncard[b] < 2

\* The step in which the pass decides to emit a card for the head of items.
CardEmitted == pass'.pc = "card" /\ (pass.pc # "card" \/ pass'.items # pass.items)

\* C6: a card emitted by a pass at time now is created disabled if and only
\* if the record's manual_set_at is set and now - manual_set_at is at most
\* ANTI_DUP_GRACE_SEC seconds; otherwise its button is active.
C6_AntiDuplicate ==
    [][/\ (CardEmitted =>
            LET rec == Held(records', pass', Head(pass'.items))
            IN  pass'.disable <=>
                    (/\ rec.manual_set_at # <<>>
                     /\ (pass'.now - rec.manual_set_at[1]) * 60 <= ANTI_DUP_GRACE_SEC))
       /\ ((Len(msgs') = Len(msgs) + 1 /\ crashes' = crashes) =>
            /\ msgs'[Len(msgs')].view = "disabled" <=> pass.disable
            /\ msgs'[Len(msgs')].view = "active" <=> ~pass.disable)]_vars

\* A card is being emitted disabled exactly at the end of the grace window.
C6_Witness ==
    /\ pass.pc = "card"
    /\ pass.disable
    /\ Held(records, pass, Head(pass.items)).manual_set_at = <<pass.now - 3>>

\* C7: a manual correction on a record holding a card reference attempts to
\* disable that card before the new last_kill is written to the record, and
\* the handler saves the record whether the attempt succeeded or not.
C7_SupersedeBeforeRecord ==
    [][/\ (Len(cmds') = Len(cmds) + 1 /\ cmds'[Len(cmds')].op \in {"k", "killat"}) =>
            LET b == cmds'[Len(cmds')].boss
            IN  LastKillOf(records', b) = LastKillOf(records, b)
       /\ (\E i \in DOMAIN cmds, ok \in BOOLEAN : DisableDone(i, ok)) =>
            disk' = save_records(records', order')]_vars

\* C8: every operation that changes a record's last_kill leaves reminded and
\* carded false, and no operation that leaves last_kill unchanged turns one
\* of the two flags from true to false.
C8_FlagResetExactly ==
    [][\A b \in DOMAIN records \cap DOMAIN records' :
          LET r == records[b]
              r2 == records'[b]
          IN  /\ r2.last_kill # r.last_kill => ~r2.reminded /\ ~r2.carded
              /\ r2.last_kill = r.last_kill =>
                    /\ r.reminded => r2.reminded
                    /\ r.carded => r2.carded]_vars

\* C9: after any completed operation that changed a record's last_kill (a
\* manual correction whose attempt to disable the old card failed included),
\* the record holds no card reference.
C9_CardRefCleared ==
    [][\A b \in DOMAIN records' :
          (\/ /\ LastKillOf(records', b) # LastKillOf(records, b)
              /\ crashes' = crashes
              /\ ~(/\ Len(cmds') = Len(cmds) + 1
                   /\ cmds'[Len(cmds')].op \in {"k", "killat"})
           \/ \E i \in DOMAIN cmds, ok \in BOOLEAN :
                 /\ DisableDone(i, ok)
                 /\ cmds[i].boss = b /\ cmds[i].changed /\ ~cmds[i].detached)
          => /\ records'[b].card_channel_id = None
             /\ records'[b].card_msg_id = None]_vars

\* C10: pressing the active confirm button of a card at time t leaves, once
\* the handler has written and saved the record, the
\* record with last_kill = t, reminded and carded false, manual_set_at
\* cleared and no card reference.
C10_ConfirmButton ==
    [][\A m \in DOMAIN msgs :
          btn_kill(m) =>
              LET r == records'[msgs[m].boss]
              IN  /\ r.last_kill = clock
                  /\ ~r.reminded /\ ~r.carded
                  /\ r.manual_set_at = <<>>
                  /\ r.card_channel_id = None /\ r.card_msg_id = None]_vars

\* The step in which the pass begins the send of a reminder for the head of
\* items.
ReminderEmitted == pass'.pc = "remind" /\ (pass.pc # "remind" \/ pass'.items # pass.items)

\* C11: at the moment the loop begins the send of a reminder or of a card for
\* an entity, the store holds that entity's record with last_kill set and a
\* channel set, also when /clear or /del ran while the pass was suspended.
C11_NoSendWithoutObservation ==
    [][(ReminderEmitted \/ CardEmitted) =>
          LET b == Head(pass'.items)
          IN  /\ b \in DOMAIN records'
              /\ b \notin DOMAIN pass'.detached
              /\ records'[b].last_kill # None
              /\ records'[b].channel # None]_vars

\* C12: within one cycle of an entity (last_kill unchanged) the loop never
\* begins an early reminder after the card of that cycle has been sent,
\* whatever passes and commands (/set included) are interleaved.
C12_ReminderBeforeCard ==
    [][ReminderEmitted => ncard'[Head(pass'.items)] = 0]_vars

\* C13: every record of the store has a period greater than zero.
C13_PeriodPositive == \A b \in DOMAIN records : records[b].period > 0

\* C14: a command given malformed input (a /killat text that does not parse,
\* a /set or /add period that is not positive) leaves the store, the set of
\* its names included, as it was.
C14_MalformedMutatesNothing ==
    [][/\ (\E b \in MainBosses, text \in KillatInputs :
              strptime_HM(text) = <<>> /\ killat_(b, text))
            => (records' = records /\ order' = order)
       /\ (\E b \in MainBosses, period \in PeriodInputs :
              period <= 0 /\ (set_(b, period) \/ add_(b, period)))
            => (records' = records /\ order' = order)]_vars

\* C15: whenever no pass and no command handler is in flight, records.json
\* holds the store as it is in memory.
C15_PersistedEqualsStore ==
    (PassOver /\ cmds = <<>>) => disk = save_records(records, order)

\* The classification in status is one of an observed boss at or after its
\* respawn instant; Overrun is the time since that instant, in ticks.
PastRespawn ==
    /\ status # NoStatus
    /\ status.last # None
    /\ status.now >= status.last + Minutes(status.period)

Overrun == status.now - (status.last + Minutes(status.period))

\* C16: for every period p > 0, last kill t and now >= t + p, status_of
\* returns SPAWNED or MISSED and nothing else: SPAWNED, with 0 missed rounds,
\* if and only if now - (t + p) < p, and otherwise MISSED with
\* floor((now - (t + p)) / p) >= 1 missed rounds, counted from the first
\* respawn instant.
C16_SpawnedMissedPartition ==
    PastRespawn =>
        /\ status.out.sym \in {"SPAWNED", "MISSED"}
        /\ status.out.sym = "SPAWNED" <=> Overrun < Minutes(status.period)
        /\ status.out.sym = "SPAWNED" => status.out.miss_times = 0
        /\ status.out.sym = "MISSED" =>
              /\ status.out.miss_times = Overrun \div Minutes(status.period)
              /\ status.out.miss_times >= 1

\* A period of 120 minutes and a kill 365 minutes ago: MISSED, 2 rounds.
C16_Witness ==
    /\ PastRespawn
    /\ status.period = 120
    /\ status.now - status.last = Minutes(365)
    /\ status.out.sym = "MISSED"
    /\ status.out.miss_times = 2

\* C17: for every period p > 0 and kill instant t, status_of at now = t
\* returns SPAWNED.
C17_SpawnedAtKill ==
    (status # NoStatus /\ status.last # None /\ status.now = status.last)
        => status.out.sym = "SPAWNED"

\* C17, amended: status_of returns SPAWNED (0 missed rounds) at
\* now = t + p, the respawn instant; at now = t it returns SOON when p is at
\* most EARLY_MINUTES and WAIT otherwise.
C17_SpawnedAtRespawn ==
    (status # NoStatus /\ status.last # None) =>
        /\ status.now = status.last + Minutes(status.period) =>
              /\ status.out.sym = "SPAWNED"
              /\ status.out.miss_times = 0
        /\ status.now = status.last =>
              status.out.sym = IF status.period <= EARLY_MINUTES THEN "SOON" ELSE "WAIT"

\* status_of was called at the respawn instant of a boss of period 120.
C17_Witness ==
    /\ status # NoStatus
    /\ status.last = 61
    /\ status.period = 120
    /\ status.now = status.last + Minutes(120)
    /\ status.out.sym = "SPAWNED"

\* C18: right after /clear every record of the store has last_kill unset,
\* reminded and carded unset and the period it had before, and the store
\* holds the same names.
C18_BulkClear ==
    [][clear_ =>
          /\ DOMAIN records' = DOMAIN records
          /\ order' = order
          /\ \A b \in DOMAIN records' :
                /\ records'[b].last_kill = None
                /\ ~records'[b].reminded
                /\ ~records'[b].carded
                /\ records'[b].period = records[b].period]_vars

\* A record that was given a kill (its channel is set) and the period 2 has
\* been cleared: its last_kill is unset again and the period is still 2.
C18_Witness ==
    \E b \in DOMAIN records :
        /\ records[b].last_kill = None
        /\ records[b].channel # None
        /\ records[b].period = 2

\* The card of b is due: b has a kill and a channel and its respawn instant
\* has come.
CardDue(b) ==
    /\ b \in DOMAIN records
    /\ records[b].last_kill # None
    /\ records[b].channel # None
    /\ clock >= records[b].last_kill + safe_period(records[b].period)

\* A card of b's current cycle has been delivered.
CardDelivered(b) ==
    /\ ncard[b] >= 1
    /\ ~(pass.pc = "card" /\ Head(pass.items) = b)

\* The card's send for b failed in the pass of the last minute the clock
\* counts: no later pass is left to send it again.
FailedAtHorizon(b) == pass.now = MaxClock /\ <<b, "card">> \in pass.failed

\* C19: when an entity has a kill and a channel, no command touches it any
\* more, the loop keeps being scheduled and the sends attempted from some
\* point on succeed, then once its respawn instant has come the card of the
\* cycle is eventually delivered.  A loop that has been stopped is not kept
\* scheduled, and a send that fails in the pass of the last minute counted is
\* not held against the claim.
C19_RecurrenceEventuallyNotified ==
    \A b \in MainBosses :
        CardDue(b) ~> (CardDelivered(b) \/ FailedAtHorizon(b) \/ pass.pc = "stopped")

\* C20: a manual correction interleaved with a pass suspended at an external
\* call leaves the record as some serial order of the two would: the pass
\* sets carded, and writes the card ids, only on a record whose last_kill is
\* still the one its decision was computed from.
C20_SerializedReadModifyWrite ==
    [][/\ CardEmitted =>
            Held(records', pass', Head(pass'.items)).last_kill = pass'.kill
       /\ (pass.pc = "card" /\ Len(msgs') = Len(msgs) + 1 /\ crashes' = crashes) =>
            Held(records, pass, Head(pass.items)).last_kill = pass.kill]_vars

\* C21: a step of the reconciliation pass changes nothing of the store but
\* reminded, carded and the card ids of records: it leaves every record's
\* last_kill, period, channel and manual_set_at as they were and neither adds
\* nor removes a record.
C21_LoopFrame ==
    [][PassStep =>
          /\ DOMAIN records' = DOMAIN records
          /\ order' = order
          /\ \A b \in DOMAIN records :
                /\ records'[b].last_kill = records[b].last_kill
                /\ records'[b].period = records[b].period
                /\ records'[b].channel = records[b].channel
                /\ records'[b].manual_set_at = records[b].manual_set_at]_vars

\* The pass has delivered a card for a record, which still holds the kill,
\* the period and the manual_set_at it was given by /k and /set.
C21_Witness ==
    \E b \in DOMAIN records :
        /\ records[b].carded
        /\ records[b].card_msg_id # None
        /\ records[b].last_kill = 0
        /\ records[b].period = 2
        /\ records[b].manual_set_at = <<0>>

\* C22: whenever no command handler is in flight, for each entity at most
\* one delivered card still has an active confirm button, and that card is
\* the one the entity's record refers to by card_msg_id.
C22_SingleLiveCard ==
    cmds = <<>> =>
        \A b \in Bosses :
            LET live == {i \in DOMAIN msgs : msgs[i].boss = b /\ msgs[i].view = "active"}
            IN  /\ Cardinality(live) <= 1
                /\ \A i \in live : b \in DOMAIN records /\ records[b].card_msg_id = i

====
